---- MODULE Spec2Model ----
(***************************************************************************)
(* ipython-neo4j: the %cypher / %wcypher query gateway of magic.py and the *)
(* session connection manager of connection.py.                            *)
(*                                                                         *)
(* A query text is a sequence of characters.  The alphabet is small: the   *)
(* letters "r", "w", "s" stand for statement bodies (the database reads,   *)
(* writes or changes the schema when it runs them), ";" is the statement   *)
(* terminator, " " and "\n" are whitespace.                                *)
(*                                                                         *)
(* Spec follows one magic call from the session state it finds to its      *)
(* return; every database request is a step of its own, so that the order  *)
(* of the requests and what is in flight are part of the state.            *)
(* SpecResolve applies _most_restrictive_type to every short list.         *)
(***************************************************************************)
EXTENDS Naturals, Sequences, FiniteSets

(***************************************************************************)
(* Bounds of the model.                                                    *)
(***************************************************************************)
MaxStmts == 2

(***************************************************************************)
(* Text helpers: Python's str.strip() and " ".join().                      *)
(***************************************************************************)
Whitespace == {" ", "\n"}

RECURSIVE LStrip(_)
LStrip(t) ==
    IF t # <<>> /\ Head(t) \in Whitespace THEN LStrip(Tail(t)) ELSE t

RECURSIVE RStrip(_)
RStrip(t) ==
    IF t # <<>> /\ t[Len(t)] \in Whitespace
    THEN RStrip(SubSeq(t, 1, Len(t) - 1))
    ELSE t

Strip(t) == RStrip(LStrip(t))

RECURSIVE Join(_, _)
Join(sep, parts) ==
    IF parts = <<>> THEN <<>>
    ELSE IF Len(parts) = 1 THEN parts[1]
    ELSE parts[1] \o sep \o Join(sep, Tail(parts))

(***************************************************************************)
(* _STMT_SEP_RE = ;\s*(?=\n|$) with re.MULTILINE.  A match starts at a ";" *)
(* at index p, greedily takes the whitespace after it and backs off until  *)
(* the next position is the end of the text or a "\n".  SepMatchEnd is the *)
(* index of the last character of the match, 0 when there is no match.     *)
(***************************************************************************)
RECURSIVE WsRunEnd(_, _)
WsRunEnd(t, i) ==
    IF i + 1 <= Len(t) /\ t[i + 1] \in Whitespace THEN WsRunEnd(t, i + 1) ELSE i

AtLineEnd(t, j) == j = Len(t) \/ t[j + 1] = "\n"

(* Fault: the separator is any ";", wherever it stands on its line. *)
SepMatchEnd_AnySemicolon(t, p) == IF t[p] # ";" THEN 0 ELSE p

SepMatchEnd(t, p) ==
    IF t[p] # ";" THEN 0
    ELSE LET e == WsRunEnd(t, p)
             ok == {j \in p..e : AtLineEnd(t, j)}
         IN  IF ok = {} THEN 0
             ELSE CHOOSE j \in ok : \A k \in ok : k <= j

(***************************************************************************)
(* re.split: the pieces of t between the successive matches, scanning from *)
(* index i with the current piece starting at index from.                  *)
(***************************************************************************)
RECURSIVE SepSplit(_, _, _)
SepSplit(t, from, i) ==
    IF i > Len(t) THEN << SubSeq(t, from, Len(t)) >>
    ELSE LET e == SepMatchEnd(t, i)
         IN  IF e = 0 THEN SepSplit(t, from, i + 1)
             ELSE << SubSeq(t, from, i - 1) >> \o SepSplit(t, e + 1, e + 1)

(* Fault: the blank parts are kept. *)
StripNonEmpty_KeepsBlank(parts) == [i \in 1..Len(parts) |-> Strip(parts[i])]

RECURSIVE StripNonEmpty(_)
StripNonEmpty(parts) ==
    IF parts = <<>> THEN <<>>
    ELSE LET p == Strip(Head(parts))
         IN  (IF p # <<>> THEN << p >> ELSE <<>>) \o StripNonEmpty(Tail(parts))

_split_statements(query) == StripNonEmpty(SepSplit(query, 1, 1))

(***************************************************************************)
(* The database, as the gateway sees it through driver.execute_query.      *)
(* The server decides a statement's query type from its text; a text with  *)
(* no statement body is not a Cypher statement and every request for it    *)
(* raises.                                                                 *)
(***************************************************************************)
Mentions(stmt, c) == \E i \in 1..Len(stmt) : stmt[i] = c

ValidCypher(stmt) == \E c \in {"r", "w", "s"} : Mentions(stmt, c)

ServerQueryType(stmt) ==
    IF Mentions(stmt, "s") THEN "s"
    ELSE IF Mentions(stmt, "w") /\ Mentions(stmt, "r") THEN "rw"
    ELSE IF Mentions(stmt, "w") THEN "w"
    ELSE "r"

PyNone == "<None>"

Upper(s) ==
    CASE s = "r" -> "R" [] s = "w" -> "W" [] s = "rw" -> "RW" [] s = "s" -> "S"
      [] OTHER -> s

Lower(s) ==
    CASE s = "R" -> "r" [] s = "W" -> "w" [] s = "RW" -> "rw" [] s = "S" -> "s"
      [] s = "X" -> "x"
      [] OTHER -> s

(* What execute_query("EXPLAIN " + stmt) can do: raise, or return a summary *)
(* whose query_type is the server's type (in either case), missing, empty   *)
(* or a category this client does not know.                                 *)
ExplainResponses(stmt) ==
    {[raises |-> TRUE, query_type |-> PyNone]} \cup
    (IF ValidCypher(stmt)
     THEN {[raises |-> FALSE, query_type |-> t] :
             t \in {ServerQueryType(stmt), Upper(ServerQueryType(stmt)),
                    PyNone, "", "X"}}
     ELSE {})

(***************************************************************************)
(* _explain_query_type, given the response of its execute_query call.      *)
(***************************************************************************)
_explain_query_type(resp) ==
    IF resp.raises THEN ""
    ELSE Lower(IF resp.query_type \in {PyNone, ""} THEN "" ELSE resp.query_type)

(***************************************************************************)
(* _most_restrictive_type: max(types, key=precedence.get(t, 0), default="")*)
(* Python's max returns the first element that has the largest key.        *)
(***************************************************************************)
(* Fault: w and rw swapped in the precedence table. *)
precedence_WriteOverReadWrite(t) ==
    CASE t = "s" -> 4 [] t = "rw" -> 2 [] t = "w" -> 3 [] t = "r" -> 1
      [] OTHER -> 0

precedence(t) ==
    CASE t = "s" -> 4 [] t = "rw" -> 3 [] t = "w" -> 2 [] t = "r" -> 1
      [] OTHER -> 0

RECURSIVE MaxByPrecedence(_, _)
MaxByPrecedence(best, rest) ==
    IF rest = <<>> THEN best
    ELSE IF precedence(Head(rest)) > precedence(best)
         THEN MaxByPrecedence(Head(rest), Tail(rest))
         ELSE MaxByPrecedence(best, Tail(rest))

(* Fault: the type of the last statement stands for the batch. *)
_most_restrictive_type_Last(types) ==
    IF types = <<>> THEN "" ELSE types[Len(types)]

_most_restrictive_type(types) ==
    IF types = <<>> THEN "" ELSE MaxByPrecedence(Head(types), Tail(types))

_WRITE_TYPES == {"w", "rw", "s"}

(* Fault: "s" missing from the blocked types. *)
WriteBlocked_SchemaForgotten(qtype, allow) ==
    qtype # "" /\ qtype \in {"w", "rw"} /\ ~allow

(* Fault: a batch of unknown type is blocked like a write. *)
WriteBlocked_UnknownBlocked(qtype, allow) ==
    (qtype = "" \/ qtype \in _WRITE_TYPES) /\ ~allow

(* The test of magic.py line 353. *)
WriteBlocked(qtype, allow) ==
    qtype # "" /\ qtype \in _WRITE_TYPES /\ ~allow

(***************************************************************************)
(* Inputs of one %cypher / %%cypher / %wcypher call.                       *)
(***************************************************************************)
StmtTexts == {<<"r">>, <<"w">>, <<"s">>}

RECURSIVE StmtLists(_)
StmtLists(n) ==
    IF n = 0 THEN {<<>>}
    ELSE StmtLists(n - 1) \cup
         {Append(l, s) : l \in {x \in StmtLists(n - 1) : Len(x) = n - 1},
                         s \in StmtTexts}

(* Cell bodies: statements ended by ";\n", and a few texts around the      *)
(* terminator: blank, terminator only, trailing terminator, mid-line ";"   *)
(* (one read-write statement to the server), and one cell of three         *)
(* statements.                                                             *)
Cells ==
    {Join(<<";", "\n">>, l) : l \in StmtLists(MaxStmts)} \cup
    {<<" ">>, <<";">>, <<" ", ";", " ">>, <<"w", ";", " ">>,
     <<"r", ";", "w">>, <<"r", ";", "w", ";", " ", "\n", "r">>,
     <<"r", ";", "\n", "w", ";", "\n", "r">>}

(* args.query_words of a line magic: the tokens after the flags. *)
QueryWords == {<<>>, << <<"r">> >>, << <<"w">> >>, << <<"r", ";">>, <<"w">> >>,
               << <<";">> >>}

(* args.params evaluated in the user namespace: no --params, an expression *)
(* whose value is a dict, or one that raises or is not a dict.             *)
ParamArgs == {"absent", "dict", "invalid"}

EmptyParams == "{}"
UserParams == "{name: Alice}"

DefaultDatabase == "neo4j"
ArgDatabase == "mydb"

NoDriver == PyNone
SessionDriver == "session"
OwnDriver == "own"

VARIABLES
    pc,            \* where the call is: idle, preflight, execute, done
    query,         \* the Cypher string built from the line or the cell
    statements,    \* _split_statements(query)
    allow_write,   \* the allow_write parameter or'ed with args.allow_write
    no_preflight,  \* args.no_preflight
    params,        \* the query parameters
    database,      \* the database the requests name
    driver,        \* the driver the call uses
    own_driver,    \* whether the call created it
    qtypes,        \* the classifications gathered by the pre-flight
    overall_type,  \* _most_restrictive_type(qtypes), once computed
    results,       \* the CypherResults gathered by the execution loop
    pending,       \* the request the call is blocked on
    requests,      \* every execute_query request of the call, in order
    replies,       \* how each answered request ended: "returned" or "raised"
    applied,       \* the statements whose effects this call made the database apply
    own_closes,    \* how many times the call closed its own driver
    outcome,       \* how the call ended
    displayed,     \* what the call displayed, in order
    user_ns,       \* the notebook variable named by -o
    write_twin,    \* how the call compares with its twin under the other magic
    neo4j_call,    \* the %neo4j call: its arguments, file, environment and config
    manager_log,   \* the calls made on Neo4jConnection, each with its driver events
    _driver,       \* Neo4jConnection._driver
    _config        \* Neo4jConnection._config

vars == <<pc, query, statements, allow_write, no_preflight, params, database,
          driver, own_driver, qtypes, overall_type, results, pending, requests,
          replies, applied, own_closes, outcome, displayed, user_ns,
          write_twin, neo4j_call, manager_log, _driver, _config>>

NoRequest == [kind |-> "none"]

NoNeo4jCall == [kind |-> "none"]

(* Neo4jConnection._config: None, the ConnectionConfig of from_env(), or   *)
(* the one of an earlier %neo4j call that named a URI and a database.      *)
NoConfig ==
    [uri |-> PyNone, username |-> PyNone, password |-> PyNone, database |-> PyNone]
EnvConfig ==
    [uri |-> "NEO4J_URI", username |-> "NEO4J_USERNAME",
     password |-> "NEO4J_PASSWORD", database |-> DefaultDatabase]
UriConfig ==
    [uri |-> "bolt://host", username |-> "movies", password |-> "movies",
     database |-> "movies"]

(* The connection manager when the magic is called: never connected        *)
(* (connection.py 63-64), connected by connect() (85-93), or left by a     *)
(* connect() whose verify_connectivity() raised (88-92).                   *)
SessionStates ==
    {[driver |-> NoDriver, config |-> NoConfig],
     [driver |-> SessionDriver, config |-> UriConfig],
     [driver |-> SessionDriver, config |-> NoConfig]}

Unset == [kind |-> "unset"]

Init ==
    /\ pc = "idle"
    /\ query = <<>>
    /\ statements = <<>>
    /\ allow_write = FALSE
    /\ no_preflight = FALSE
    /\ params = EmptyParams
    /\ database = DefaultDatabase
    /\ driver = NoDriver
    /\ own_driver = FALSE
    /\ qtypes = <<>>
    /\ overall_type = PyNone
    /\ results = <<>>
    /\ pending = NoRequest
    /\ requests = <<>>
    /\ replies = <<>>
    /\ applied = <<>>
    /\ own_closes = 0
    /\ outcome = "none"
    /\ displayed = <<>>
    /\ user_ns = Unset
    /\ write_twin = "none"
    /\ neo4j_call = NoNeo4jCall
    /\ manager_log = <<>>
    /\ \E m \in SessionStates : _driver = m.driver /\ _config = m.config

(***************************************************************************)
(* The arguments of a call and what the environment does during it.        *)
(***************************************************************************)
CallArgs ==
    [magic : {"cypher", "wcypher"}, write : BOOLEAN, no_preflight : BOOLEAN,
     is_cell : {TRUE}, cell : Cells, query_words : {<<>>},
     params : ParamArgs, uri : BOOLEAN, database : BOOLEAN]
    \cup
    [magic : {"cypher", "wcypher"}, write : BOOLEAN, no_preflight : BOOLEAN,
     is_cell : {FALSE}, cell : {<<>>}, query_words : QueryWords,
     params : ParamArgs, uri : BOOLEAN, database : BOOLEAN]

(* GraphDatabase.driver(...) and verify_connectivity() either work or raise. *)
ConnectOutcomes == {"ok", "driver_raises", "verify_raises"}

QueryOf(a) ==
    IF a.is_cell THEN Strip(a.cell) ELSE Join(<<" ">>, a.query_words)

(* Fault: the permission that wcypher passes is lost; only the flag counts. *)
AllowWriteOf_FlagOnly(a) == a.write

AllowWriteOf(a) == (a.magic = "wcypher") \/ a.write

ParamsOf(a) == IF a.params = "dict" THEN UserParams ELSE EmptyParams

(* Fault: get_driver connects from the environment even when a driver is held. *)
DetermineDriver_AlwaysConnects(a, env) ==
    IF a.uri
    THEN [raises |-> env = "driver_raises",
          driver |-> OwnDriver,
          database |-> IF a.database THEN ArgDatabase ELSE DefaultDatabase,
          own |-> TRUE,
          mgr_driver |-> _driver,
          mgr_config |-> _config]
    ELSE LET d == IF env # "driver_raises" THEN SessionDriver ELSE _driver
             c == IF env = "ok" THEN EnvConfig ELSE _config
         IN  [raises |-> env # "ok",
              driver |-> d,
              database |-> IF a.database THEN ArgDatabase
                           ELSE IF c = NoConfig THEN DefaultDatabase
                           ELSE c.database,
              own |-> FALSE,
              mgr_driver |-> d,
              mgr_config |-> c]

(* Fault: the exception of the driver determination is swallowed. *)
DetermineDriver_Swallows(a, env) ==
    IF a.uri
    THEN [raises |-> FALSE,
          driver |-> IF env = "driver_raises" THEN NoDriver ELSE OwnDriver,
          database |-> IF a.database THEN ArgDatabase ELSE DefaultDatabase,
          own |-> env # "driver_raises",
          mgr_driver |-> _driver,
          mgr_config |-> _config]
    ELSE LET connects == _driver = NoDriver
             d == IF connects /\ env # "driver_raises" THEN SessionDriver ELSE _driver
             c == IF connects /\ env = "ok" THEN EnvConfig ELSE _config
         IN  [raises |-> FALSE,
              driver |-> d,
              database |-> IF a.database THEN ArgDatabase
                           ELSE IF c = NoConfig THEN DefaultDatabase
                           ELSE c.database,
              own |-> FALSE,
              mgr_driver |-> d,
              mgr_config |-> c]

(***************************************************************************)
(* "Determine driver" (magic.py 314-333) with Neo4jConnection.get_driver,  *)
(* connect and get_database (connection.py 66-107): the driver and the     *)
(* database of the call, whether it raised, and the manager afterwards.    *)
(***************************************************************************)
DetermineDriver(a, env) ==
    IF a.uri
    THEN [raises |-> env = "driver_raises",
          driver |-> OwnDriver,
          database |-> IF a.database THEN ArgDatabase ELSE DefaultDatabase,
          own |-> TRUE,
          mgr_driver |-> _driver,
          mgr_config |-> _config]
    ELSE LET connects == _driver = NoDriver
             d == IF connects /\ env # "driver_raises" THEN SessionDriver ELSE _driver
             c == IF connects /\ env = "ok" THEN EnvConfig ELSE _config
         IN  [raises |-> connects /\ env # "ok",
              driver |-> d,
              database |-> IF a.database THEN ArgDatabase
                           ELSE IF c = NoConfig THEN DefaultDatabase
                           ELSE c.database,
              own |-> FALSE,
              mgr_driver |-> d,
              mgr_config |-> c]

NoQueryWarning == [kind |-> "no_query_warning"]
ConnectionErrorHtml == [kind |-> "connection_error"]
ErrorHtml(exc, q) == [kind |-> "error", exc |-> exc, query |-> Strip(q)]
WriteBlockedHtml(q, qtype) == [kind |-> "write_blocked", qtype |-> qtype, query |-> Strip(q)]

(* The variables of a call as it begins or returns early. *)
SetCall(pcN, q, stmts, a, db, drv, own, closes, out, shown) ==
    /\ pc' = pcN
    /\ query' = q
    /\ statements' = stmts
    /\ allow_write' = AllowWriteOf(a)
    /\ no_preflight' = a.no_preflight
    /\ params' = ParamsOf(a)
    /\ database' = db
    /\ driver' = drv
    /\ own_driver' = own
    /\ qtypes' = <<>>
    /\ overall_type' = PyNone
    /\ results' = <<>>
    /\ pending' = NoRequest
    /\ requests' = <<>>
    /\ replies' = <<>>
    /\ applied' = <<>>
    /\ own_closes' = closes
    /\ outcome' = out
    /\ displayed' = shown
    /\ UNCHANGED <<user_ns, neo4j_call, manager_log>>

CanCall == pc = "idle"

(* magic.py 297-301: no query text. *)
CallNoQuery(a) ==
    /\ CanCall
    /\ QueryOf(a) = <<>>
    /\ SetCall("done", <<>>, <<>>, a, DefaultDatabase, NoDriver, FALSE, 0,
               "no_query", << NoQueryWarning >>)
    /\ UNCHANGED <<_driver, _config>>

(* magic.py 303-312: --params raises or is not a dict. *)
CallBadParams(a) ==
    /\ CanCall
    /\ QueryOf(a) # <<>>
    /\ a.params = "invalid"
    /\ SetCall("done", QueryOf(a), <<>>, a, DefaultDatabase, NoDriver, FALSE, 0,
               "params_error", << ErrorHtml("params", QueryOf(a)) >>)
    /\ UNCHANGED <<_driver, _config>>

(* magic.py 314-333: the driver cannot be obtained. *)
CallConnectionError(a, env) ==
    /\ CanCall
    /\ QueryOf(a) # <<>>
    /\ a.params # "invalid"
    /\ LET dd == DetermineDriver(a, env)
       IN  /\ dd.raises
           /\ SetCall("done", QueryOf(a), <<>>, a, DefaultDatabase, NoDriver,
                      FALSE, 0, "connection_error", << ConnectionErrorHtml >>)
           /\ _driver' = dd.mgr_driver
           /\ _config' = dd.mgr_config

(* magic.py 335-343: the text holds no statement. *)
CallNoStatements(a, env) ==
    /\ CanCall
    /\ QueryOf(a) # <<>>
    /\ a.params # "invalid"
    /\ LET dd == DetermineDriver(a, env)
       IN  /\ ~dd.raises
           /\ _split_statements(QueryOf(a)) = <<>>
           /\ SetCall("done", QueryOf(a), <<>>, a, dd.database, dd.driver, dd.own,
                      IF dd.own THEN 1 ELSE 0,
                      "no_statements", << NoQueryWarning >>)
           /\ _driver' = dd.mgr_driver
           /\ _config' = dd.mgr_config

(* Fault: --no-preflight is not honoured. *)
FirstPhase_AlwaysPreflight(skip) == "preflight"

(* magic.py 347: the pre-flight is skipped under --no-preflight. *)
FirstPhase(skip) == IF skip THEN "execute" ELSE "preflight"

(* magic.py 284-345: the call reaches the try block with its statements. *)
CallBegin(a, env) ==
    /\ CanCall
    /\ QueryOf(a) # <<>>
    /\ a.params # "invalid"
    /\ LET dd == DetermineDriver(a, env)
           stmts == _split_statements(QueryOf(a))
       IN  /\ ~dd.raises
           /\ stmts # <<>>
           /\ SetCall(FirstPhase(a.no_preflight),
                      QueryOf(a), stmts, a, dd.database, dd.driver, dd.own, 0,
                      "none", <<>>)
           /\ _driver' = dd.mgr_driver
           /\ _config' = dd.mgr_config

(***************************************************************************)
(* %wcypher calls _run_cypher with allow_write=True (271), %cypher with    *)
(* allow_write=False (241) and the --write flag of the line (287-288).     *)
(* The twins of a call are the calls with the same line and cell that ask  *)
(* for the write permission the other way.                                 *)
(***************************************************************************)
Twins(a) ==
    IF a.magic = "wcypher"
    THEN {[a EXCEPT !.magic = "cypher", !.write = TRUE]}
    ELSE IF a.write
    THEN {[a EXCEPT !.magic = "wcypher", !.write = w] : w \in BOOLEAN}
    ELSE {}

(* What _run_cypher does with the arguments a up to the try block. *)
CallOf(a, env) ==
    \/ CallNoQuery(a)
    \/ CallBadParams(a)
    \/ CallConnectionError(a, env)
    \/ CallNoStatements(a, env)
    \/ CallBegin(a, env)

(* The call is compared with its twins: whether each of them, in the same  *)
(* environment, leaves the call in the very same state.                    *)
CompareTwin(a, env) ==
    write_twin' = IF Twins(a) = {} THEN "none"
                  ELSE IF \A b \in Twins(a) : CallOf(b, env) THEN "same"
                  ELSE "differs"

(***************************************************************************)
(* The try block of _run_cypher (magic.py 345-374).  Every database        *)
(* request is a blocking call: the call sends it, waits in pending, and    *)
(* goes on when the driver returns or raises.                              *)
(***************************************************************************)
(* The statement the pre-flight comprehension probes next (348-351). *)
NextProbe == Len(qtypes) + 1

(* driver.execute_query(f"EXPLAIN {query}", database_=database), 59-62. *)
ExplainRequest(i) ==
    [kind |-> "explain", index |-> i, stmt |-> statements[i],
     params |-> PyNone, database |-> database, driver |-> driver]

(* Fault: the loop runs the statements last to first. *)
NextExecute_Reversed ==
    IF Len(results) < Len(statements) THEN Len(statements) - Len(results)
    ELSE Len(statements) + 1

(* The statement the execution loop runs next (361). *)
NextExecute == Len(results) + 1

(* driver.execute_query(stmt, parameters_=params, database_=database), 362-366. *)
ExecuteRequest(i) ==
    [kind |-> "execute", index |-> i, stmt |-> statements[i],
     params |-> params, database |-> database, driver |-> driver]

(* CypherResult(records=records, summary=summary, keys=keys), 367: the     *)
(* answer to the request numbered n of this call.                          *)
CypherResult(req, n) == [of |-> req.stmt, request |-> n]

(* Fault: the finally clause is missing. *)
FinallyClose_Missing == UNCHANGED own_closes

(* finally: if own_driver: driver.close()  (372-374). *)
FinallyClose == own_closes' = own_closes + (IF own_driver THEN 1 ELSE 0)

CallFrame == <<query, statements, allow_write, no_preflight, params, database,
               driver, own_driver, write_twin, neo4j_call, manager_log>>

SendExplain ==
    /\ pc = "preflight"
    /\ pending = NoRequest
    /\ NextProbe <= Len(statements)
    /\ pending' = ExplainRequest(NextProbe)
    /\ requests' = Append(requests, ExplainRequest(NextProbe))
    /\ UNCHANGED <<pc, CallFrame, qtypes, overall_type, results, replies, applied,
                   own_closes, outcome, displayed, user_ns, _driver, _config>>

(* 59-63: the EXPLAIN request returns a summary. *)
ExplainReturns ==
    /\ pc = "preflight"
    /\ pending.kind = "explain"
    /\ \E resp \in {r \in ExplainResponses(pending.stmt) : ~r.raises} :
          qtypes' = Append(qtypes, _explain_query_type(resp))
    /\ replies' = Append(replies, "returned")
    /\ pending' = NoRequest
    /\ UNCHANGED <<pc, CallFrame, overall_type, results, requests, applied,
                   own_closes, outcome, displayed, user_ns, _driver, _config>>

(* Fault: the probe's exception reaches the except clause of _run_cypher. *)
ExplainRaises_Propagates ==
    /\ pc = "preflight"
    /\ pending.kind = "explain"
    /\ displayed' = << ErrorHtml("database_error", query) >>
    /\ outcome' = "execution_error"
    /\ pc' = "done"
    /\ replies' = Append(replies, "raised")
    /\ pending' = NoRequest
    /\ FinallyClose
    /\ UNCHANGED <<CallFrame, qtypes, overall_type, results, requests, applied,
                   user_ns, _driver, _config>>

(* 64-65: the EXPLAIN request raises. *)
ExplainRaises ==
    /\ pc = "preflight"
    /\ pending.kind = "explain"
    /\ \E resp \in {r \in ExplainResponses(pending.stmt) : r.raises} :
          qtypes' = Append(qtypes, _explain_query_type(resp))
    /\ replies' = Append(replies, "raised")
    /\ pending' = NoRequest
    /\ UNCHANGED <<pc, CallFrame, overall_type, results, requests, applied,
                   own_closes, outcome, displayed, user_ns, _driver, _config>>

(* Fault: the pre-flight stops at the first statement classified as a write. *)
PreflightBlocks_ShortCircuit ==
    /\ pc = "preflight"
    /\ pending = NoRequest
    /\ qtypes # <<>>
    /\ overall_type' = _most_restrictive_type(qtypes)
    /\ WriteBlocked(overall_type', allow_write)
    /\ displayed' = << WriteBlockedHtml(query, overall_type') >>
    /\ outcome' = "write_blocked"
    /\ pc' = "done"
    /\ FinallyClose
    /\ UNCHANGED <<CallFrame, qtypes, results, pending, requests, replies, applied,
                   user_ns, _driver, _config>>

(* Fault: the block message is displayed but the call does not return. *)
PreflightBlocks_NoReturn ==
    /\ pc = "preflight"
    /\ pending = NoRequest
    /\ NextProbe > Len(statements)
    /\ overall_type' = _most_restrictive_type(qtypes)
    /\ WriteBlocked(overall_type', allow_write)
    /\ displayed' = << WriteBlockedHtml(query, overall_type') >>
    /\ outcome' = "write_blocked"
    /\ pc' = "execute"
    /\ UNCHANGED <<CallFrame, qtypes, results, pending, requests, replies, applied,
                   own_closes, user_ns, _driver, _config>>

(* 352-357: the batch is blocked. *)
PreflightBlocks ==
    /\ pc = "preflight"
    /\ pending = NoRequest
    /\ NextProbe > Len(statements)
    /\ overall_type' = _most_restrictive_type(qtypes)
    /\ WriteBlocked(overall_type', allow_write)
    /\ displayed' = << WriteBlockedHtml(query, overall_type') >>
    /\ outcome' = "write_blocked"
    /\ pc' = "done"
    /\ FinallyClose
    /\ UNCHANGED <<CallFrame, qtypes, results, pending, requests, replies, applied,
                   user_ns, _driver, _config>>

(* 352-359: the batch goes on to the execution loop. *)
PreflightAdmits ==
    /\ pc = "preflight"
    /\ pending = NoRequest
    /\ NextProbe > Len(statements)
    /\ overall_type' = _most_restrictive_type(qtypes)
    /\ ~WriteBlocked(overall_type', allow_write)
    /\ pc' = "execute"
    /\ UNCHANGED <<CallFrame, qtypes, results, pending, requests, replies, applied,
                   own_closes, outcome, displayed, user_ns, _driver, _config>>

SendExecute ==
    /\ pc = "execute"
    /\ pending = NoRequest
    /\ NextExecute <= Len(statements)
    /\ pending' = ExecuteRequest(NextExecute)
    /\ requests' = Append(requests, ExecuteRequest(NextExecute))
    /\ UNCHANGED <<pc, CallFrame, qtypes, overall_type, results, replies, applied,
                   own_closes, outcome, displayed, user_ns, _driver, _config>>

(* The database runs the statement, applies its effects and answers. *)
ExecuteReturns ==
    /\ pc = "execute"
    /\ pending.kind = "execute"
    /\ ValidCypher(pending.stmt)
    /\ results' = Append(results, CypherResult(pending, Len(requests)))
    /\ applied' = IF ServerQueryType(pending.stmt) = "r" THEN applied
                  ELSE Append(applied, pending.stmt)
    /\ replies' = Append(replies, "returned")
    /\ pending' = NoRequest
    /\ UNCHANGED <<pc, CallFrame, qtypes, overall_type, requests, own_closes,
                   outcome, displayed, user_ns, _driver, _config>>

(* Fault: the results gathered before the failure are stored. *)
ExecuteRaises_StoresPartial ==
    /\ pc = "execute"
    /\ pending.kind = "execute"
    /\ displayed' = << ErrorHtml("database_error", query) >>
    /\ outcome' = "execution_error"
    /\ pc' = "done"
    /\ replies' = Append(replies, "raised")
    /\ pending' = NoRequest
    /\ FinallyClose
    /\ user_ns' = IF results # <<>>
                  THEN [kind |-> "value", as_df |-> FALSE,
                        result |-> results[Len(results)]]
                  ELSE user_ns
    /\ UNCHANGED <<CallFrame, qtypes, overall_type, results, requests, applied,
                   _driver, _config>>

(* Fault: the error is displayed inside the loop, which goes on. *)
ExecuteRaises_Continues ==
    /\ pc = "execute"
    /\ pending.kind = "execute"
    /\ displayed' = Append(displayed, ErrorHtml("database_error", query))
    /\ outcome' = "execution_error"
    /\ results' = Append(results, CypherResult(pending, 0))
    /\ replies' = Append(replies, "raised")
    /\ pending' = NoRequest
    /\ UNCHANGED <<pc, CallFrame, qtypes, overall_type, requests, applied,
                   own_closes, user_ns, _driver, _config>>

(* Fault: the except clause undoes what the earlier statements applied. *)
ExecuteRaises_RollsBack ==
    /\ pc = "execute"
    /\ pending.kind = "execute"
    /\ displayed' = << ErrorHtml("database_error", query) >>
    /\ outcome' = "execution_error"
    /\ pc' = "done"
    /\ replies' = Append(replies, "raised")
    /\ pending' = NoRequest
    /\ applied' = <<>>
    /\ FinallyClose
    /\ UNCHANGED <<CallFrame, qtypes, overall_type, results, requests,
                   user_ns, _driver, _config>>

(* 369-374: execute_query raises; the statement's own effects are not applied. *)
ExecuteRaises ==
    /\ pc = "execute"
    /\ pending.kind = "execute"
    /\ displayed' = << ErrorHtml("database_error", query) >>
    /\ outcome' = "execution_error"
    /\ pc' = "done"
    /\ replies' = Append(replies, "raised")
    /\ pending' = NoRequest
    /\ FinallyClose
    /\ UNCHANGED <<CallFrame, qtypes, overall_type, results, requests, applied,
                   user_ns, _driver, _config>>

(***************************************************************************)
(* After the loop (372-417): the finally clause, then display and store.   *)
(***************************************************************************)
StoredValue(result, as_df) == [kind |-> "value", as_df |-> as_df, result |-> result]

RECURSIVE MultiDisplay(_, _)
MultiDisplay(i, rs) ==
    IF i > Len(rs) THEN <<>>
    ELSE << [kind |-> "header", index |-> i, count |-> Len(rs), stmt |-> statements[i]],
            [kind |-> "result", result |-> rs[i]] >>
         \o MultiDisplay(i + 1, rs)

(* 378-396: one statement. *)
FinishSingle(visualize, viz_raises, as_df, output) ==
    /\ pc = "execute"
    /\ pending = NoRequest
    /\ NextExecute > Len(statements)
    /\ Len(results) = 1
    /\ FinallyClose
    /\ pc' = "done"
    /\ outcome' = "success"
    /\ IF visualize
       THEN /\ displayed' = IF viz_raises
                            THEN << ErrorHtml("ImportError", query) >>
                            ELSE << [kind |-> "graph", result |-> results[1]] >>
            /\ UNCHANGED user_ns
       ELSE IF output
       THEN /\ user_ns' = StoredValue(results[1], as_df)
            /\ displayed' = << [kind |-> "stored", result |-> results[1]] >>
       ELSE /\ displayed' = << [kind |-> "result", as_df |-> as_df, result |-> results[1]] >>
            /\ UNCHANGED user_ns
    /\ UNCHANGED <<CallFrame, qtypes, overall_type, results, pending, requests,
                   replies, applied, _driver, _config>>

(* 398-417: several statements. *)
FinishMulti(as_df, output) ==
    /\ pc = "execute"
    /\ pending = NoRequest
    /\ NextExecute > Len(statements)
    /\ Len(results) # 1
    /\ FinallyClose
    /\ pc' = "done"
    /\ outcome' = "success"
    /\ IF output
       THEN /\ user_ns' = StoredValue(results[Len(results)], as_df)
            /\ displayed' = MultiDisplay(1, results)
                            \o << [kind |-> "stored", result |-> results[Len(results)]] >>
       ELSE /\ displayed' = MultiDisplay(1, results)
            /\ UNCHANGED user_ns
    /\ UNCHANGED <<CallFrame, qtypes, overall_type, results, pending, requests,
                   replies, applied, _driver, _config>>

Next ==
    \/ CanCall /\ \E a \in CallArgs :
          CallNoQuery(a) /\ CompareTwin(a, "ok")
    \/ CanCall /\ \E a \in CallArgs :
          CallBadParams(a) /\ CompareTwin(a, "ok")
    \/ CanCall /\ \E a \in CallArgs, env \in ConnectOutcomes :
          CallConnectionError(a, env) /\ CompareTwin(a, env)
    \/ CanCall /\ \E a \in CallArgs, env \in ConnectOutcomes :
          CallNoStatements(a, env) /\ CompareTwin(a, env)
    \/ CanCall /\ \E a \in CallArgs, env \in ConnectOutcomes :
          CallBegin(a, env) /\ CompareTwin(a, env)
    \/ SendExplain
    \/ ExplainRaises
    \/ ExplainReturns
    \/ PreflightBlocks
    \/ PreflightAdmits
    \/ SendExecute
    \/ ExecuteReturns
    \/ ExecuteRaises
    \/ \E visualize, viz_raises, as_df, output \in BOOLEAN :
          FinishSingle(visualize, viz_raises, as_df, output)
    \/ \E as_df, output \in BOOLEAN : FinishMulti(as_df, output)

Spec == Init /\ [][Next]_vars

(***************************************************************************)
(* _most_restrictive_type on its own: every list of up to MaxTypes         *)
(* classifications is resolved once.                                       *)
(***************************************************************************)
MaxTypes == 3

EffectClasses == {"r", "w", "rw", "s", ""}

RECURSIVE TypeLists(_)
TypeLists(n) ==
    IF n = 0 THEN {<<>>}
    ELSE TypeLists(n - 1) \cup
         {Append(l, t) : l \in {x \in TypeLists(n - 1) : Len(x) = n - 1},
                         t \in EffectClasses}

InitResolve ==
    /\ pc = "resolve"
    /\ qtypes \in TypeLists(MaxTypes)
    /\ overall_type = PyNone
    /\ query = <<>>
    /\ statements = <<>>
    /\ allow_write = FALSE
    /\ no_preflight = FALSE
    /\ params = EmptyParams
    /\ database = DefaultDatabase
    /\ driver = NoDriver
    /\ own_driver = FALSE
    /\ results = <<>>
    /\ pending = NoRequest
    /\ requests = <<>>
    /\ replies = <<>>
    /\ applied = <<>>
    /\ own_closes = 0
    /\ outcome = "none"
    /\ displayed = <<>>
    /\ user_ns = Unset
    /\ write_twin = "none"
    /\ neo4j_call = NoNeo4jCall
    /\ manager_log = <<>>
    /\ _driver = NoDriver
    /\ _config = NoConfig

Resolve ==
    /\ pc = "resolve"
    /\ overall_type' = _most_restrictive_type(qtypes)
    /\ pc' = "resolved"
    /\ UNCHANGED <<CallFrame, qtypes, results, pending, requests, replies, applied,
                   own_closes, outcome, displayed, user_ns, _driver, _config>>

NextResolve == Resolve

SpecResolve == InitResolve /\ [][NextResolve]_vars

(***************************************************************************)
(* _most_restrictive_type on the values _explain_query_type can return:    *)
(* "" and the lower-cased query_type of the summary, whatever it is        *)
(* (magic.py 59-65).                                                       *)
(***************************************************************************)
ClassifyValues ==
    {_explain_query_type(resp) :
       resp \in UNION {ExplainResponses(stmt) : stmt \in StmtTexts}}

RECURSIVE ClassifiedLists(_)
ClassifiedLists(n) ==
    IF n = 0 THEN {<<>>}
    ELSE ClassifiedLists(n - 1) \cup
         {Append(l, t) : l \in {x \in ClassifiedLists(n - 1) : Len(x) = n - 1},
                         t \in ClassifyValues}

InitClassified ==
    /\ pc = "resolve"
    /\ qtypes \in ClassifiedLists(MaxTypes)
    /\ overall_type = PyNone
    /\ query = <<>>
    /\ statements = <<>>
    /\ allow_write = FALSE
    /\ no_preflight = FALSE
    /\ params = EmptyParams
    /\ database = DefaultDatabase
    /\ driver = NoDriver
    /\ own_driver = FALSE
    /\ results = <<>>
    /\ pending = NoRequest
    /\ requests = <<>>
    /\ replies = <<>>
    /\ applied = <<>>
    /\ own_closes = 0
    /\ outcome = "none"
    /\ displayed = <<>>
    /\ user_ns = Unset
    /\ write_twin = "none"
    /\ neo4j_call = NoNeo4jCall
    /\ manager_log = <<>>
    /\ _driver = NoDriver
    /\ _config = NoConfig

SpecClassified == InitClassified /\ [][NextResolve]_vars

(***************************************************************************)
(* _split_statements on its own: every text of up to MaxLen characters is  *)
(* split once.                                                             *)
(***************************************************************************)
MaxLen == 6

SplitAlphabet == {"r", "w", ";", " ", "\n"}

RECURSIVE Texts(_)
Texts(n) ==
    IF n = 0 THEN {<<>>}
    ELSE Texts(n - 1) \cup
         {Append(t, c) : t \in {x \in Texts(n - 1) : Len(x) = n - 1},
                         c \in SplitAlphabet}

InitSplit ==
    /\ pc = "split"
    /\ query \in Texts(MaxLen)
    /\ statements = <<>>
    /\ allow_write = FALSE
    /\ no_preflight = FALSE
    /\ params = EmptyParams
    /\ database = DefaultDatabase
    /\ driver = NoDriver
    /\ own_driver = FALSE
    /\ qtypes = <<>>
    /\ overall_type = PyNone
    /\ results = <<>>
    /\ pending = NoRequest
    /\ requests = <<>>
    /\ replies = <<>>
    /\ applied = <<>>
    /\ own_closes = 0
    /\ outcome = "none"
    /\ displayed = <<>>
    /\ user_ns = Unset
    /\ write_twin = "none"
    /\ neo4j_call = NoNeo4jCall
    /\ manager_log = <<>>
    /\ _driver = NoDriver
    /\ _config = NoConfig

Split ==
    /\ pc = "split"
    /\ statements' = _split_statements(query)
    /\ pc' = "split_done"
    /\ UNCHANGED <<query, allow_write, no_preflight, params, database, driver,
                   own_driver, qtypes, overall_type, results, pending, requests,
                   replies, applied, own_closes, outcome, displayed, user_ns,
                   write_twin, neo4j_call, manager_log, _driver, _config>>

NextSplit == Split

SpecSplit == InitSplit /\ [][NextSplit]_vars

(***************************************************************************)
(* The %neo4j magic (magic.py 117-182) with Neo4jConnection.connect,       *)
(* close and status_html (connection.py 66-130): one call per behaviour,   *)
(* from every state of the connection manager.                             *)
(***************************************************************************)
Fields == {"uri", "username", "password", "database"}

(* The value a setting has when given on the line, in the --env-file file, *)
(* in os.environ, and the built-in default (connection.py 30-33).          *)
FlagValue ==
    [uri |-> "bolt://flaghost:7687", username |-> "flaguser",
     password |-> "flagpass", database |-> "flagdb"]
FileValue ==
    [uri |-> "bolt://envhost:7687", username |-> "envuser",
     password |-> "envpass", database |-> "envdb"]
EnvironValue ==
    [uri |-> "bolt://shellhost:7687", username |-> "shelluser",
     password |-> "shellpass", database |-> "shelldb"]
DefaultValue ==
    [uri |-> "bolt://localhost:7687", username |-> "neo4j",
     password |-> "neo4j", database |-> "neo4j"]

(* Every choice of which settings a source gives. *)
Settings(value) == [Fields -> {PyNone}] \cup
    {[f \in Fields |-> IF f \in given THEN value[f] ELSE PyNone] :
        given \in SUBSET Fields}

(* Python's "a or b" on an optional non-empty string. *)
Or(a, b) == IF a # PyNone THEN a ELSE b

(* ConnectionConfig.__init__ (connection.py 15-25). *)
ConnectionConfig(uri, username, password, db) ==
    [uri |-> uri, username |-> username, password |-> password,
     database |-> Or(db, "neo4j")]

(* ConnectionConfig.from_env (connection.py 27-34); NEO4J_USER is unset. *)
from_env(environ) ==
    ConnectionConfig(Or(environ.uri, DefaultValue.uri),
                     Or(environ.username, DefaultValue.username),
                     Or(environ.password, DefaultValue.password),
                     Or(environ.database, DefaultValue.database))

(* The config built by Neo4jConnection.connect (connection.py 75-83). *)
connect_config(uri, username, password, db, environ) ==
    IF uri = PyNone THEN from_env(environ)
    ELSE ConnectionConfig(uri,
                          Or(username, Or(environ.username, DefaultValue.username)),
                          Or(password, Or(environ.password, DefaultValue.password)),
                          Or(db, Or(environ.database, DefaultValue.database)))

(* The arguments of a %neo4j call that connects, the pairs of the file    *)
(* named by --env-file (NoEnvFile without the option), and os.environ.     *)
NoEnvFile == [kind |-> "no_env_file"]
Neo4jArgs == Settings(FlagValue)
EnvFiles == {NoEnvFile} \cup Settings(FileValue)
Environs == Settings(EnvironValue)

(* loaded.get(key) for the file of --env-file, None without it (160-168). *)
FileGet(loaded, f) == IF loaded = NoEnvFile THEN PyNone ELSE loaded[f]

(* What the call leaves untouched. *)
Neo4jFrame == <<query, statements, allow_write, no_preflight, params, database,
                driver, own_driver, write_twin, qtypes, overall_type, results,
                pending, requests, replies, applied, own_closes, user_ns,
                manager_log>>

(* %neo4j --close (151-154) with Neo4jConnection.close (109-114). *)
Neo4jClose ==
    /\ pc = "idle"
    /\ _driver' = NoDriver
    /\ _config' = IF _driver # NoDriver THEN NoConfig ELSE _config
    /\ neo4j_call' = [kind |-> "close"]
    /\ displayed' = << [kind |-> "disconnected"] >>
    /\ outcome' = "closed"
    /\ pc' = "done"
    /\ UNCHANGED Neo4jFrame

(* %neo4j --status (156-158) with status_html (120-130): cfg.uri raises    *)
(* AttributeError when a driver is held without a config.                  *)
Neo4jStatus ==
    /\ pc = "idle"
    /\ neo4j_call' = [kind |-> "status"]
    /\ IF _driver # NoDriver /\ _config = NoConfig
       THEN /\ displayed' = <<>>
            /\ outcome' = "AttributeError"
       ELSE /\ displayed' = << [kind |-> "status", connected |-> _driver # NoDriver,
                                config |-> _config] >>
            /\ outcome' = "status"
    /\ pc' = "done"
    /\ UNCHANGED <<Neo4jFrame, _driver, _config>>

(* --env-file names a file that cannot be loaded (162-164). *)
Neo4jEnvFileError(args) ==
    /\ pc = "idle"
    /\ neo4j_call' = [kind |-> "connect", args |-> args, loaded |-> NoEnvFile,
                      environ |-> [f \in Fields |-> PyNone], config |-> NoConfig]
    /\ displayed' = << [kind |-> "env_file_error"] >>
    /\ outcome' = "env_file_error"
    /\ pc' = "done"
    /\ UNCHANGED <<Neo4jFrame, _driver, _config>>

(* %neo4j connects (160-182) through Neo4jConnection.connect (66-94). *)
Neo4jConnect(args, loaded, environ, env) ==
    /\ pc = "idle"
    /\ LET config == connect_config(Or(args.uri, FileGet(loaded, "uri")),
                                    Or(args.username, FileGet(loaded, "username")),
                                    Or(args.password, FileGet(loaded, "password")),
                                    Or(args.database, FileGet(loaded, "database")),
                                    environ)
       IN  /\ neo4j_call' = [kind |-> "connect", args |-> args, loaded |-> loaded,
                             environ |-> environ, config |-> config]
           /\ _driver' = IF env = "driver_raises" THEN _driver ELSE SessionDriver
           /\ _config' = IF env = "ok" THEN config ELSE _config
           /\ displayed' = IF env = "ok"
                           THEN << [kind |-> "connected", config |-> config] >>
                           ELSE << ConnectionErrorHtml >>
           /\ outcome' = IF env = "ok" THEN "connected" ELSE "connection_error"
    /\ pc' = "done"
    /\ UNCHANGED Neo4jFrame

NextConnect ==
    \/ Neo4jClose
    \/ Neo4jStatus
    \/ pc = "idle" /\ \E args \in Neo4jArgs : Neo4jEnvFileError(args)
    \/ pc = "idle" /\ \E args \in Neo4jArgs, loaded \in EnvFiles,
                         environ \in Environs, env \in ConnectOutcomes :
          Neo4jConnect(args, loaded, environ, env)

SpecConnect == Init /\ [][NextConnect]_vars

(***************************************************************************)
(* Neo4jConnection under a sequence of connect, get_driver and close calls *)
(* (connection.py 60-118).  Every driver GraphDatabase.driver returns is a *)
(* new object; manager_log keeps, per call, the driver the manager held    *)
(* when the call began, what the call did to drivers, in order, whether it *)
(* raised, and the driver the manager held when it ended.                  *)
(***************************************************************************)
MaxCalls == 3

DriverNames == <<"driver1", "driver2", "driver3", "driver4", "driver5">>

RECURSIVE Events(_)
Events(log) ==
    IF log = <<>> THEN <<>>
    ELSE Events(SubSeq(log, 1, Len(log) - 1)) \o log[Len(log)].events

Created(log) ==
    {Events(log)[i].driver : i \in {j \in DOMAIN Events(log) : Events(log)[j].op = "create"}}

(* The object the next GraphDatabase.driver call returns. *)
NewDriver == DriverNames[Cardinality(Created(manager_log)) + 1]

ConnectUris == {PyNone, UriConfig.uri}

(* Fault: connect installs the new driver without closing the one held. *)
connect_LeavesPrevious(uri, env) ==
    LET config  == IF uri = PyNone THEN EnvConfig ELSE UriConfig
        created == << [op |-> "create", driver |-> NewDriver] >>
    IN  IF env = "driver_raises"
        THEN [driver |-> _driver, config |-> _config, events |-> <<>>,
              raised |-> TRUE]
        ELSE [driver |-> NewDriver,
              config |-> IF env = "ok" THEN config ELSE _config,
              events |-> created
                         \o << [op |-> IF env = "ok" THEN "verify_ok" ELSE "verify_raises",
                                driver |-> NewDriver] >>,
              raised |-> env # "ok"]

(* Neo4jConnection.connect (66-94): the config (75-83), the close of the   *)
(* driver held (85-86), the new driver assigned to _driver (88-91), its    *)
(* verification (92) and, after it, the config assigned to _config (93).   *)
connect(uri, env) ==
    LET config  == IF uri = PyNone THEN EnvConfig ELSE UriConfig
        closing == IF _driver # NoDriver
                   THEN << [op |-> "close", driver |-> _driver] >>
                   ELSE <<>>
        created == << [op |-> "create", driver |-> NewDriver] >>
    IN  IF env = "driver_raises"
        THEN [driver |-> _driver, config |-> _config, events |-> closing,
              raised |-> TRUE]
        ELSE IF env = "verify_raises"
        THEN [driver |-> NewDriver, config |-> _config,
              events |-> closing \o created
                         \o << [op |-> "verify_raises", driver |-> NewDriver] >>,
              raised |-> TRUE]
        ELSE [driver |-> NewDriver, config |-> config,
              events |-> closing \o created
                         \o << [op |-> "verify_ok", driver |-> NewDriver] >>,
              raised |-> FALSE]

ManagerFrame == <<pc, query, statements, allow_write, no_preflight, params,
                  database, driver, own_driver, qtypes, overall_type, results,
                  pending, requests, replies, applied, own_closes, displayed,
                  user_ns, write_twin, neo4j_call>>

ManagerCall(name, r) ==
    /\ manager_log' = Append(manager_log,
                             [call |-> name, before |-> _driver, events |-> r.events,
                              raised |-> r.raised, after |-> r.driver])
    /\ _driver' = r.driver
    /\ _config' = r.config
    /\ outcome' = IF r.raised THEN "raised" ELSE "returned"
    /\ UNCHANGED ManagerFrame

Connect(uri, env) ==
    /\ Len(manager_log) < MaxCalls
    /\ ManagerCall("connect", connect(uri, env))

(* Neo4jConnection.get_driver (96-101). *)
GetDriver(env) ==
    /\ Len(manager_log) < MaxCalls
    /\ ManagerCall("get_driver",
                   IF _driver = NoDriver THEN connect(PyNone, env)
                   ELSE [driver |-> _driver, config |-> _config, events |-> <<>>,
                         raised |-> FALSE])

(* Neo4jConnection.close (109-114). *)
Close ==
    /\ Len(manager_log) < MaxCalls
    /\ ManagerCall("close",
                   IF _driver # NoDriver
                   THEN [driver |-> NoDriver, config |-> NoConfig,
                         events |-> << [op |-> "close", driver |-> _driver] >>,
                         raised |-> FALSE]
                   ELSE [driver |-> _driver, config |-> _config, events |-> <<>>,
                         raised |-> FALSE])

(* Neo4jConnection.is_connected (116-118), get_database (103-107) and      *)
(* whether status_html (120-130) returns.                                  *)
is_connected == _driver # NoDriver

get_database == IF _config = NoConfig THEN DefaultDatabase ELSE _config.database

status_html_returns == ~is_connected \/ _config # NoConfig

(* The class attributes as the class body leaves them (63-64). *)
InitManager ==
    /\ pc = "manager"
    /\ query = <<>>
    /\ statements = <<>>
    /\ allow_write = FALSE
    /\ no_preflight = FALSE
    /\ params = EmptyParams
    /\ database = DefaultDatabase
    /\ driver = NoDriver
    /\ own_driver = FALSE
    /\ qtypes = <<>>
    /\ overall_type = PyNone
    /\ results = <<>>
    /\ pending = NoRequest
    /\ requests = <<>>
    /\ replies = <<>>
    /\ applied = <<>>
    /\ own_closes = 0
    /\ outcome = "none"
    /\ displayed = <<>>
    /\ user_ns = Unset
    /\ write_twin = "none"
    /\ neo4j_call = NoNeo4jCall
    /\ manager_log = <<>>
    /\ _driver = NoDriver
    /\ _config = NoConfig

NextManager ==
    \/ \E uri \in ConnectUris, env \in ConnectOutcomes : Connect(uri, env)
    \/ \E env \in ConnectOutcomes : GetDriver(env)
    \/ Close

SpecManager == InitManager /\ [][NextManager]_vars

(***************************************************************************)
(* repr() of a ConnectionConfig (connection.py 15-25 and 56-57).           *)
(***************************************************************************)
SettingValues(f) == {FlagValue[f], FileValue[f], EnvironValue[f], DefaultValue[f]}

ReprConfigs ==
    {ConnectionConfig(uri, username, password, db) :
        uri \in SettingValues("uri"), username \in SettingValues("username"),
        password \in SettingValues("password"),
        db \in SettingValues("database") \cup {PyNone}}

(* Python's !r conversion of a string. *)
Quoted(str) == <<"'", str, "'">>

(* Fault: the password is formatted too. *)
__repr___WithPassword(self) ==
    <<"ConnectionConfig(uri=">> \o Quoted(self.uri)
      \o <<", username=">> \o Quoted(self.username)
      \o <<", password=">> \o Quoted(self.password)
      \o <<", database=">> \o Quoted(self.database) \o <<")">>

(* ConnectionConfig.__repr__ (56-57), as the pieces of its f-string. *)
__repr__(self) ==
    <<"ConnectionConfig(uri=">> \o Quoted(self.uri)
      \o <<", username=">> \o Quoted(self.username)
      \o <<", database=">> \o Quoted(self.database) \o <<")">>

InitRepr ==
    /\ pc = "repr"
    /\ query = <<>>
    /\ statements = <<>>
    /\ allow_write = FALSE
    /\ no_preflight = FALSE
    /\ params = EmptyParams
    /\ database = DefaultDatabase
    /\ driver = NoDriver
    /\ own_driver = FALSE
    /\ qtypes = <<>>
    /\ overall_type = PyNone
    /\ results = <<>>
    /\ pending = NoRequest
    /\ requests = <<>>
    /\ replies = <<>>
    /\ applied = <<>>
    /\ own_closes = 0
    /\ outcome = "none"
    /\ displayed = <<>>
    /\ user_ns = Unset
    /\ write_twin = "none"
    /\ neo4j_call = NoNeo4jCall
    /\ manager_log = <<>>
    /\ _driver = NoDriver
    /\ _config \in ReprConfigs

(* repr(config) is evaluated and shown. *)
Repr ==
    /\ pc = "repr"
    /\ displayed' = << __repr__(_config) >>
    /\ pc' = "repr_done"
    /\ UNCHANGED <<query, statements, allow_write, no_preflight, params, database,
                   driver, own_driver, qtypes, overall_type, results, pending,
                   requests, replies, applied, own_closes, outcome, user_ns,
                   write_twin, neo4j_call, manager_log, _driver, _config>>

NextRepr == Repr

SpecRepr == InitRepr /\ [][NextRepr]_vars

(***************************************************************************)
(* Properties.                                                             *)
(***************************************************************************)
Probing == pc # "idle" /\ ~no_preflight

(* The pre-flight has been run to its end and the gate has decided. *)
GateDecided == Probing /\ overall_type # PyNone

Blocking == {"w", "rw", "s"}

ExecuteRequests == SelectSeq(requests, LAMBDA r : r.kind = "execute")

ExplainRequests == SelectSeq(requests, LAMBDA r : r.kind = "explain")

(* C1: with the pre-flight enabled and without write permission, every      *)
(* statement sent for execution is a read statement for the server.         *)
C1_OnlyReadsExecuted ==
    (Probing /\ ~allow_write) =>
        \A i \in 1..Len(requests) :
            requests[i].kind = "execute" => ServerQueryType(requests[i].stmt) = "r"

(* C2: a batch rejected by the gate has issued no execute request: all its  *)
(* requests are EXPLAIN probes, it has no result, and the database applied  *)
(* nothing for it.                                                          *)
C2_RejectedBatchExecutesNothing ==
    outcome = "write_blocked" =>
        /\ ExecuteRequests = <<>>
        /\ \A i \in 1..Len(requests) : requests[i].kind = "explain"
        /\ results = <<>>
        /\ applied = <<>>

C2_Witness ==
    /\ outcome = "write_blocked"
    /\ pc = "done"
    /\ Len(statements) = 2
    /\ qtypes = <<"r", "w">>
    /\ Len(requests) = 2

(* C3: with the pre-flight enabled and no write permission, the batch is    *)
(* rejected if and only if some statement's probe returned w, rw or s,      *)
(* whatever the other probes returned.                                      *)
C3_RejectedIffSomeProbeBlocking ==
    (GateDecided /\ ~allow_write) =>
        /\ Len(qtypes) = Len(statements)
        /\ (outcome = "write_blocked"
              <=> \E i \in 1..Len(qtypes) : qtypes[i] \in Blocking)

C3_Witness ==
    /\ outcome = "write_blocked"
    /\ ~allow_write
    /\ Len(qtypes) = 2
    /\ qtypes[1] = "s"
    /\ qtypes[2] = ""
    /\ replies[2] = "raised"

(* C4: the gate rejects exactly when the resolved class is w, rw or s and   *)
(* writing is not allowed; a resolved r or unknown, or an allowed write, is *)
(* admitted.                                                                *)
C4_GateDecision ==
    GateDecided =>
        /\ (outcome = "write_blocked" <=> (overall_type \in Blocking /\ ~allow_write))
        /\ (outcome # "write_blocked" => pc = "execute" \/ outcome \in {"execution_error", "success"})

C4_Witness ==
    /\ GateDecided
    /\ allow_write
    /\ overall_type = "s"
    /\ pc = "execute"
    /\ outcome = "none"

(* C5: resolve returns an element of the list whose rank is the largest in  *)
(* it under s(4) > rw(3) > w(2) > r(1) > unknown(0), and unknown for the    *)
(* empty list.                                                              *)
Rank(c) ==
    CASE c = "s" -> 4 [] c = "rw" -> 3 [] c = "w" -> 2 [] c = "r" -> 1 [] c = "" -> 0

C5_ResolveIsMaxRank ==
    pc = "resolved" =>
        IF qtypes = <<>> THEN overall_type = ""
        ELSE /\ \E i \in 1..Len(qtypes) : qtypes[i] = overall_type
             /\ \A i \in 1..Len(qtypes) : Rank(qtypes[i]) <= Rank(overall_type)

C5_Witness ==
    /\ pc = "resolved"
    /\ qtypes = <<"w", "rw", "r">>
    /\ overall_type = "rw"

(* C6: a probe whose EXPLAIN request raised is classified unknown and ends  *)
(* nothing: every statement is still probed, the gate decides as for an     *)
(* unknown statement, and an error outcome only ever comes from an execute  *)
(* request.                                                                 *)
C6_ProbeFailureIsUnknown ==
    /\ \A i \in 1..Len(replies) :
          (requests[i].kind = "explain" /\ replies[i] = "raised") =>
              /\ requests[i].index <= Len(qtypes)
              /\ qtypes[requests[i].index] = ""
              /\ (pc = "done" => outcome \in {"write_blocked", "execution_error", "success"})
              /\ (pc = "done" => Len(ExplainRequests) = Len(statements))
              /\ (GateDecided =>
                    (outcome = "write_blocked" <=>
                        (~allow_write /\ \E j \in 1..Len(qtypes) : qtypes[j] \in Blocking)))
    /\ outcome = "execution_error" =>
          /\ requests[Len(requests)].kind = "execute"
          /\ replies[Len(requests)] = "raised"

C6_Witness ==
    /\ pc = "done"
    /\ outcome = "success"
    /\ Len(statements) = 2
    /\ replies[1] = "raised"
    /\ replies[2] = "returned"
    /\ qtypes = <<"", "r">>

(* C7: every classification, and the resolved one, is r, w, rw, s or        *)
(* unknown.                                                                 *)
C7_ClosedEnumeration ==
    /\ \A i \in 1..Len(qtypes) : qtypes[i] \in EffectClasses
    /\ GateDecided => overall_type \in EffectClasses

(* C8: under --no-preflight no EXPLAIN request is issued and the batch is   *)
(* never rejected: the requests are the execute requests, the i-th for the  *)
(* i-th statement.                                                          *)
C8_NoPreflightNoProbe ==
    (pc # "idle" /\ no_preflight) =>
        /\ qtypes = <<>>
        /\ outcome # "write_blocked"
        /\ \A i \in 1..Len(requests) :
              /\ requests[i].kind = "execute"
              /\ requests[i].index = i
        /\ Len(requests) <= Len(statements)
        /\ Len(requests) = Len(replies) + (IF pending = NoRequest THEN 0 ELSE 1)

C8_Witness ==
    /\ no_preflight
    /\ ~allow_write
    /\ outcome = "success"
    /\ Len(statements) = 2
    /\ applied = << <<"w">>, <<"s">> >>

(* C9: the execute requests of a batch are a prefix of its statements, in   *)
(* order and once each, a statement being sent only when the one before it  *)
(* has returned, all with the call's parameters, database and driver; on    *)
(* success the i-th result is the answer to the i-th statement's request.   *)
C9_ExecutionInOrder ==
    LET ex == ExecuteRequests
        first == Len(requests) - Len(ex)
    IN  /\ Len(ex) <= Len(statements)
        /\ \A i \in 1..Len(ex) :
              /\ ex[i] = requests[first + i]
              /\ ex[i].index = i
              /\ ex[i].stmt = statements[i]
              /\ ex[i].params = params
              /\ ex[i].database = database
              /\ ex[i].driver = driver
        /\ Len(ex) <= Len(results) + 1
        /\ \A i \in 1..Len(results) :
              /\ i <= Len(ex)
              /\ results[i].of = statements[i]
              /\ results[i].request = first + i
              /\ replies[first + i] = "returned"
        /\ outcome = "success" => Len(results) = Len(statements)

C9_Witness ==
    /\ outcome = "success"
    /\ Len(statements) = 3
    /\ Len(results) = 3
    /\ params = UserParams
    /\ database = ArgDatabase
    /\ ~no_preflight

(* C10: when the execute request of statement k raises, the batch ends in   *)
(* the execution error: no later statement is sent, and no result gathered  *)
(* before is displayed or stored.                                           *)
C10_FailureAbortsBatch ==
    (\E i \in 1..Len(replies) : requests[i].kind = "execute" /\ replies[i] = "raised") =>
        /\ outcome = "execution_error"
        /\ pc = "done"
        /\ pending = NoRequest
        /\ replies[Len(requests)] = "raised"
        /\ requests[Len(requests)].index = Len(results) + 1
        /\ \A i \in 1..Len(requests) :
              requests[i].kind = "execute" => requests[i].index <= Len(results) + 1
        /\ displayed = << ErrorHtml("database_error", query) >>
        /\ user_ns = Unset

C10_Witness ==
    /\ outcome = "execution_error"
    /\ Len(statements) = 3
    /\ Len(results) = 1
    /\ Len(ExecuteRequests) = 2

(* C11: the error displayed when the execute request of statement k raises  *)
(* names the position k of that statement in the batch and carries that     *)
(* statement's text.                                                        *)
C11_ErrorIdentifiesStatement ==
    outcome = "execution_error" =>
        LET k == requests[Len(requests)].index
            e == displayed[Len(displayed)]
        IN  /\ e.kind = "error"
            /\ "index" \in DOMAIN e
            /\ e.query = statements[k]

(* The effects a sequence of statements has on the database, in order. *)
EffectsOf(stmts) == SelectSeq(stmts, LAMBDA s : ServerQueryType(s) # "r")

(* C12: when the execute request of statement k raises, the effects of      *)
(* statements 1..k-1 stay applied: the call sends no request after the      *)
(* failing one, every request it sent is a probe or the execution of a      *)
(* statement of the batch, and the batch is not atomic.                     *)
C12_EarlierEffectsRemain ==
    outcome = "execution_error" =>
        LET k == requests[Len(requests)].index
        IN  /\ requests[Len(requests)].kind = "execute"
            /\ applied = EffectsOf(SubSeq(statements, 1, k - 1))
            /\ \A i \in 1..Len(requests) :
                  /\ requests[i].kind \in {"explain", "execute"}
                  /\ requests[i].stmt = statements[requests[i].index]
            /\ Len(ExecuteRequests) = k

C12_Witness ==
    /\ outcome = "execution_error"
    /\ pc = "done"
    /\ Len(statements) = 3
    /\ requests[Len(requests)].index = 3
    /\ applied = << <<"w">> >>

(* C13: a call with well-formed options whose text yields no statement ends *)
(* with the nothing-to-execute warning, never with an error, and sends no   *)
(* request, whatever the state of the connection.                           *)
C13_NoStatementsIsNoOp ==
    (pc = "done" /\ outcome # "params_error" /\ _split_statements(query) = <<>>) =>
        /\ outcome \in {"no_query", "no_statements"}
        /\ displayed = << NoQueryWarning >>
        /\ requests = <<>>

RECURSIVE LineEnd(_, _)
LineEnd(t, i) ==
    IF i = Len(t) \/ t[i + 1] = "\n" THEN i ELSE LineEnd(t, i + 1)

(* A ";" followed only by whitespace up to the end of its line or of the text. *)
IsTerminator(t, i) ==
    /\ t[i] = ";"
    /\ \A j \in (i + 1)..LineEnd(t, i) : t[j] \in Whitespace

Terminators(t) == {i \in 1..Len(t) : IsTerminator(t, i)}

(* The pieces of t between its terminators. *)
RECURSIVE Pieces(_, _, _)
Pieces(t, from, i) ==
    IF i > Len(t) THEN << SubSeq(t, from, Len(t)) >>
    ELSE IF IsTerminator(t, i)
         THEN << SubSeq(t, from, i - 1) >> \o Pieces(t, i + 1, i + 1)
         ELSE Pieces(t, from, i + 1)

(* The non-blank pieces, trimmed. *)
Trimmed(parts) ==
    LET nb == SelectSeq(parts, LAMBDA p : Strip(p) # <<>>)
    IN  [i \in 1..Len(nb) |-> Strip(nb[i])]

(* C15 as stated: the statements are the trimmed non-blank pieces of the    *)
(* text between the ";" that are followed only by whitespace up to the end  *)
(* of their line or of the text, and a text without such a ";" yields       *)
(* exactly one statement, the trimmed text.                                 *)
C15_SplitAtLineEndTerminators ==
    pc = "split_done" =>
        /\ statements = Trimmed(Pieces(query, 1, 1))
        /\ Terminators(query) = {} => statements = << Strip(query) >>

(* C15, amended: the statements are the trimmed non-blank pieces of the     *)
(* text between the ";" that are followed only by whitespace up to the end  *)
(* of their line or of the text; a text without such a ";" yields exactly   *)
(* one statement, the trimmed text, unless it is blank, and then none.      *)
C15_SplitAtLineEndTerminators_NonBlank ==
    pc = "split_done" =>
        /\ statements = Trimmed(Pieces(query, 1, 1))
        /\ Terminators(query) = {} =>
              statements = IF Strip(query) = <<>> THEN <<>> ELSE << Strip(query) >>

C15_Witness ==
    /\ pc = "split_done"
    /\ query = <<"r", ";", "w", ";">>
    /\ Terminators(query) = {4}
    /\ statements = << <<"r", ";", "w">> >>

(* The statements occur in t from index from on, one after the other. *)
RECURSIVE OccursInOrder(_, _, _)
OccursInOrder(stmts, t, from) ==
    \/ stmts = <<>>
    \/ \E s \in from..(Len(t) - Len(Head(stmts)) + 1) :
          /\ SubSeq(t, s, s + Len(Head(stmts)) - 1) = Head(stmts)
          /\ OccursInOrder(Tail(stmts), t, s + Len(Head(stmts)))

(* C16: every statement returned by the split is non-empty and neither      *)
(* starts nor ends with whitespace; a blank text yields no statement; there *)
(* are as many statements as non-blank pieces between the terminators, so   *)
(* blank pieces yield none; the statements occur in the text in the order   *)
(* they are returned.                                                       *)
C16_ElementsTrimmedInOrder ==
    pc = "split_done" =>
        /\ \A i \in 1..Len(statements) :
              /\ statements[i] # <<>>
              /\ statements[i][1] \notin Whitespace
              /\ statements[i][Len(statements[i])] \notin Whitespace
        /\ Strip(query) = <<>> => statements = <<>>
        /\ Len(statements) =
              Len(SelectSeq(Pieces(query, 1, 1), LAMBDA p : Strip(p) # <<>>))
        /\ OccursInOrder(statements, query, 1)

C16_Witness ==
    /\ pc = "split_done"
    /\ query = <<"w", ";", "\n", ";", "\n", "r">>
    /\ statements = << <<"w">>, <<"r">> >>

(* C17 as stated: no step of a call changes the connection manager: the     *)
(* driver and the config it holds after the call are those it held before.  *)
C17_ManagerUnchanged == [][UNCHANGED <<_driver, _config>>]_vars

(* C17, amended: a call never changes a manager that holds a driver, and    *)
(* changes one that holds none only when it begins without --uri: it then   *)
(* connects from the environment, installing the session driver, and the    *)
(* environment's config exactly when the connection was verified.           *)
C17_ManagerOnlyAutoConnects ==
    [][\/ UNCHANGED <<_driver, _config>>
       \/ /\ pc = "idle"
          /\ _driver = NoDriver
          /\ ~own_driver'
          /\ _driver' = SessionDriver
          /\ IF outcome' = "connection_error"
             THEN _config' = _config
             ELSE _config' = EnvConfig /\ driver' = SessionDriver]_vars

C17_Witness ==
    /\ pc = "done"
    /\ outcome = "success"
    /\ driver = SessionDriver
    /\ _driver = SessionDriver
    /\ _config = EnvConfig

(* C18: a %wcypher call and the %cypher --write call with the same line and *)
(* cell, in the same connection state and with the same outcome of the      *)
(* connection attempt, leave the call in the same state: same statements,   *)
(* permission, options, driver, database, outcome and display.  Every later *)
(* step reads that state only, so the two send the same probe and execute   *)
(* requests and end in the same outcome.                                    *)
C18_WCypherIsCypherWrite ==
    /\ write_twin # "differs"
    /\ pc # "idle" => (write_twin = "same" <=> allow_write)

C18_Witness ==
    /\ write_twin = "same"
    /\ pc = "done"
    /\ outcome = "success"
    /\ ~no_preflight
    /\ qtypes = <<"r", "w">>
    /\ applied = << <<"w">> >>

(* C19: every step that ends a successful call made with -o, of one         *)
(* statement or of several, whatever the other options, binds the variable  *)
(* to the result of the last statement, as a DataFrame under --df.          *)
C19_OutputBoundToLast ==
    [][\A visualize, viz_raises, as_df \in BOOLEAN :
          (\/ FinishSingle(visualize, viz_raises, as_df, TRUE)
           \/ FinishMulti(as_df, TRUE))
          => user_ns' = StoredValue(results[Len(results)], as_df)]_vars

(* The value of setting f under the priority flag, file, environment, default. *)
ByPriority(c, f) ==
    Or(c.args[f], Or(FileGet(c.loaded, f), Or(c.environ[f], DefaultValue[f])))

(* C20: the config a %neo4j call connects with has, for each of uri,        *)
(* username, password and database independently, the value of the flag     *)
(* when given, otherwise the value of the --env-file file when given,       *)
(* otherwise the environment variable, otherwise the default.               *)
C20_SettingsResolvedByPriority ==
    (neo4j_call.kind = "connect" /\ outcome \in {"connected", "connection_error"}) =>
        \A f \in Fields : neo4j_call.config[f] = ByPriority(neo4j_call, f)

(***************************************************************************)
(* Drivers opened and closed by the connection manager.                    *)
(***************************************************************************)
Closes(ev, d) ==
    Cardinality({i \in DOMAIN ev : ev[i].op = "close" /\ ev[i].driver = d})

Unclosed == {d \in Created(manager_log) : Closes(Events(manager_log), d) = 0}

(* C21: a connect call made while the manager holds a driver closes that   *)
(* driver exactly once, and does so before it creates the new driver; a    *)
(* close call made while the manager holds a driver closes that driver and *)
(* leaves the manager not connected; whatever connect, get_driver and      *)
(* close calls were made, at most one created driver is unclosed, and it   *)
(* is the one the manager holds.                                           *)
C21_AtMostOneOpenDriver ==
    /\ \A i \in DOMAIN manager_log :
          LET c == manager_log[i]
          IN  /\ (c.call = "connect" /\ c.before # NoDriver) =>
                    /\ Closes(c.events, c.before) = 1
                    /\ c.events[1] = [op |-> "close", driver |-> c.before]
              /\ (c.call = "close" /\ c.before # NoDriver) =>
                    /\ c.events = << [op |-> "close", driver |-> c.before] >>
                    /\ c.after = NoDriver
    /\ (manager_log # <<>> /\ manager_log[Len(manager_log)].call = "close") =>
          ~is_connected
    /\ Cardinality(Unclosed) <= 1
    /\ Unclosed \subseteq {_driver}

(* A second connect replaced the driver of the first, then close was called. *)
C21_Witness ==
    /\ Len(manager_log) = 3
    /\ manager_log[1].call = "connect" /\ ~manager_log[1].raised
    /\ manager_log[2].call = "connect" /\ ~manager_log[2].raised
    /\ manager_log[2].before = "driver1" /\ manager_log[2].after = "driver2"
    /\ manager_log[3].call = "close" /\ manager_log[3].before = "driver2"
    /\ Unclosed = {}

(* The driver the manager holds passed verify_connectivity. *)
Verified(d) ==
    \E i \in DOMAIN Events(manager_log) :
        Events(manager_log)[i] = [op |-> "verify_ok", driver |-> d]

(* C25: after any sequence of connect, get_driver and close calls, with    *)
(* connect succeeding or failing at driver creation or at verification,    *)
(* the manager holds a driver if and only if it holds a config; the driver *)
(* it reports as connected passed verify_connectivity, and status_html     *)
(* returns.                                                                *)
C25_DriverIffConfig ==
    /\ (_driver # NoDriver) <=> (_config # NoConfig)
    /\ is_connected => Verified(_driver)
    /\ status_html_returns

(* C26: a connect call that raised left the manager holding the driver it  *)
(* held when the call began, and left that driver unclosed.                *)
C26_FailedConnectChangesNothing ==
    \A i \in DOMAIN manager_log :
        LET c == manager_log[i]
        IN  (c.call = "connect" /\ c.raised) =>
               /\ c.after = c.before
               /\ Closes(c.events, c.before) = 0

(* C22: the repr of a ConnectionConfig is determined by its uri, username  *)
(* and database: every config with the same three values, whatever its     *)
(* password, has the repr that was shown.                                  *)
C22_ReprIgnoresPassword ==
    pc = "repr_done" =>
       \A other \in ReprConfigs :
          (/\ other.uri = _config.uri
           /\ other.username = _config.username
           /\ other.database = _config.database) => displayed = << __repr__(other) >>

(* The repr of a config whose password is no other field's value was shown. *)
C22_Witness ==
    /\ pc = "repr_done"
    /\ _config.password = FlagValue.password
    /\ _config.username = DefaultValue.username
    /\ displayed = << __repr__([_config EXCEPT !.password = EnvironValue.password]) >>

(* The gate's decision had the i-th probe ended the other way: reported    *)
(* "r" where it failed, failed where it reported "r".                      *)
OtherProbe(i) ==
    [qtypes EXCEPT ![i] = IF replies[i] = "raised" THEN "r" ELSE ""]

(* C23: once the gate has decided, for each statement whose probe failed   *)
(* or reported a read, the run in which that one probe ends the other way  *)
(* reaches the same decision; a rejected batch issues no execute request   *)
(* and an admitted one issues them for the statements, in order, whatever  *)
(* the probes answered.                                                    *)
C23_FailedProbeCountsAsRead ==
    GateDecided =>
       /\ \A i \in DOMAIN qtypes :
             (replies[i] = "raised" \/ qtypes[i] = "r") =>
                (WriteBlocked(_most_restrictive_type(OtherProbe(i)), allow_write)
                   <=> WriteBlocked(overall_type, allow_write))
       /\ (outcome = "write_blocked") <=> WriteBlocked(overall_type, allow_write)
       /\ WriteBlocked(overall_type, allow_write) => ExecuteRequests = <<>>
       /\ \A k \in DOMAIN ExecuteRequests : ExecuteRequests[k].stmt = statements[k]

(* A two-statement batch whose first probe failed, on a read statement,    *)
(* was admitted without write permission and executed in full.             *)
C23_Witness ==
    /\ GateDecided /\ ~allow_write
    /\ Len(statements) = 2
    /\ ServerQueryType(statements[1]) = "r"
    /\ replies[1] = "raised" /\ qtypes = <<"", "r">>
    /\ outcome = "success"
    /\ Len(ExecuteRequests) = 2

(* C24: at most one request is outstanding at any time: every request but  *)
(* possibly the last has been answered, and the unanswered one is the      *)
(* pending one.  With probing, the probes are those of statements 1, 2,    *)
(* ... in order, one each; when the gate decides, every statement has been *)
(* probed and every probe has been answered, whatever the earlier probes   *)
(* reported; and no execute request precedes a probe.                      *)
C24_ProbesThenDecisionThenExecution ==
    /\ Len(requests) - Len(replies) \in {0, 1}
    /\ (pending = NoRequest) <=> (Len(requests) = Len(replies))
    /\ pending # NoRequest => pending = requests[Len(requests)]
    /\ Probing =>
          /\ Len(ExplainRequests) <= Len(statements)
          /\ \A i \in DOMAIN ExplainRequests :
                /\ ExplainRequests[i] = requests[i]
                /\ ExplainRequests[i].stmt = statements[i]
          /\ (overall_type # PyNone \/ ExecuteRequests # <<>>) =>
                /\ Len(ExplainRequests) = Len(statements)
                /\ Len(qtypes) = Len(statements)
                /\ Len(replies) >= Len(statements)

(* Both statements of a batch were probed although the first was already   *)
(* classified as a write, and the batch was then rejected.                 *)
C24_Witness ==
    /\ Probing /\ ~allow_write
    /\ qtypes = <<"w", "r">>
    /\ Len(ExplainRequests) = 2 /\ replies = <<"returned", "returned">>
    /\ outcome = "write_blocked"

(* C27: the driver a run created for itself is closed at most once, it has *)
(* been closed once when the run has ended, on whichever path, and once it *)
(* is closed nothing is outstanding and no further request is issued.      *)
C27_OwnDriverClosedOnce ==
    [][/\ own_closes' \in {0, 1}
       /\ (own_driver' /\ pc' = "done") => own_closes' = 1
       /\ own_closes' = 1 => pending' = NoRequest
       /\ own_closes = 1 => requests' = requests]_vars

(* A run on its own driver failed at its second statement, after the first *)
(* was executed, and closed the driver once.                               *)
C27_Witness ==
    /\ own_driver /\ driver = OwnDriver
    /\ outcome = "execution_error"
    /\ Len(ExecuteRequests) = 2 /\ Len(results) = 1
    /\ own_closes = 1

(* C28: the notebook variable named by -o changes only in the step that    *)
(* ends a run in success, with every statement executed; a run that ended  *)
(* in any other way (no query, no statements, invalid parameters,          *)
(* connection error, rejected batch, execution failure) has left it at the *)
(* value it had before the run.                                            *)
C28_OutputKeptUnlessSuccess ==
    [][/\ user_ns' # user_ns =>
             /\ outcome' = "success"
             /\ Len(results') = Len(statements')
       /\ outcome' \notin {"none", "success"} => user_ns' = Unset]_vars

(* A run failed at its second statement: the first statement's result was  *)
(* gathered and the variable was left alone.                               *)
C28_Witness ==
    /\ outcome = "execution_error"
    /\ Len(statements) = 2 /\ Len(results) = 1
    /\ user_ns = Unset

(* C29: every statement split produced is left whole by split: splitting   *)
(* it again gives that statement alone, so it does not end with a          *)
(* terminator.                                                             *)
C29_SplitStableOnOutput ==
    pc = "split_done" =>
       \A i \in DOMAIN statements :
          /\ _split_statements(statements[i]) = << statements[i] >>
          /\ statements[i][Len(statements[i])] # ";"

(* The sequences with the elements of q, each as often as in q. *)
Permutations(q) ==
    {p \in [DOMAIN q -> {q[i] : i \in DOMAIN q}] :
        \A v \in {q[i] : i \in DOMAIN q} :
            Cardinality({i \in DOMAIN p : p[i] = v})
              = Cardinality({i \in DOMAIN q : q[i] = v})}

(* C30: for every sequence of values the classification can return, every  *)
(* permutation of the sequence resolves to the value the sequence resolved *)
(* to.                                                                     *)
C30_ResolveIgnoresOrder ==
    pc = "resolved" =>
       \A p \in Permutations(qtypes) : _most_restrictive_type(p) = overall_type

====
